---- MODULE Spec2Model ----
(***************************************************************************)
(* Model of the metadata processing daemon: the TaskPool                   *)
(* (metadata_processing/task_pool.py), the Cursor (cursor.py), the entity  *)
(* pipelines of MetadataProcessing (worker.py) and the orchestrator loop   *)
(* token_processing_task (daemon.py).                                      *)
(*                                                                         *)
(* asyncio runs one coroutine at a time and switches only at an await, so  *)
(* every action below is the code between two suspension points.           *)
(***************************************************************************)
EXTENDS Integers, Sequences, FiniteSets, TLC

\* ------------------------------------------------------------------ bounds
\* Workers of the pool checked on its own (config.processing_workers is 8,
\* and 1 in the test environment).
PoolWorkers == 2
\* Units submitted to the pool checked on its own.
MaxUnits == 3
\* The keys of the entities of one kind are 0..MaxKey.
MaxKey == 2
\* Pipelines running at the same time when they are started directly.
MaxRunning == 2
\* Units submitted to the pool checked with cancellation.
CancelUnits == 2
\* The manifest downloads of one metadata_uri are counted up to MaxDownloads.
MaxDownloads == 2
\* config.download_retries is drawn from 1..MaxRetries.
MaxRetries == 4
\* The declared polygonCount of an item is drawn from 0..MaxPolygons, the
\* polygons counted in its artifact from 0..MaxPolygons + 2.
MaxPolygons == 3

\* Coordinates reach MaxCell grid cells from the origin on each side.
MaxCell == 2

\* The highest index count of an accessor.
MaxIndices == 4

None == <<"None", 0>>

\* task_pool.py:5  TERMINATOR = object()
TERMINATOR == <<"TERMINATOR", 0>>

\* No call of Cursor.next has just returned.
NoCall == [kind |-> "none", value |-> None]

PoolUnits == {<<"Unit", n>> : n \in 1..MaxUnits}
CancelPoolUnits == {<<"Unit", n>> : n \in 1..CancelUnits}

VARIABLES
    \* ---- TaskPool
    tasks,          \* TaskPool.tasks: the Queue of (future, task) pairs, FIFO
    workers,        \* TaskPool.workers: per worker loop, where it is suspended
    task_state,     \* the asyncio.Task of each unit: "none", "running",
                    \* "cancelling" (cancel requested), "ok", "raised", "cancelled"
    future,         \* the asyncio.Future submit() returned for each unit
    callbacks,      \* done-callbacks scheduled with call_soon, not yet run
    fired,          \* how many times each handle's done-callback has run
    \* ---- the caller of the pool
    pending_tasks,  \* the caller's counter (daemon.py:55, test_task_pool.py:15)
    caller,         \* where the caller is: "running", "joining", "joined"; the
                    \* orchestrator: the await it is suspended in, the
                    \* next() of the "Item", "Place" or "Contract" cursor
                    \* or the "sleep"
    cancel_called,  \* cancel_all() has been called
    join_result,    \* how join() ended: "none", "returned", "raised"
    locals,         \* the orchestrator's next_item and next_place (daemon.py:63,68)
    \* ---- the entity store
    metadata_status, \* per entity <<kind, key>>: "absent" before it is created,
                    \* then "New", "Valid", "Invalid" or "Failed"
    metadata,       \* per entity: the derived metadata record it links to, or None
    records,        \* the derived metadata records, by the entity they describe
    cache,          \* the metadata_uri of every IpfsMetadataCache row
    \* ---- the pipelines (MetadataProcessing.process_metadata), one per entity
    pipe,           \* per pipeline: its suspension point and its local variables
    downloads,      \* per metadata_uri: the manifest downloads started so far
    content,        \* per metadata_uri: what the gateways serve for it
    \* ---- Cursor, one per entity kind
    current,        \* Cursor.current: the last entity next() found, or None
    returned,       \* the call next() that has just returned: [kind, value]
    pass_keys       \* the keys next() has returned since the last reset()

poolVars == <<tasks, workers, task_state, future, callbacks, fired>>
callerVars == <<pending_tasks, caller, cancel_called, join_result, locals>>
storeVars == <<metadata_status, metadata, records, cache>>
pipeVars == <<pipe, downloads, content>>
cursorVars == <<current, returned, pass_keys>>
\* What the pool itself never touches.
nonPoolVars == <<storeVars, pipeVars, cursorVars>>
vars == <<poolVars, callerVars, nonPoolVars>>

Units == DOMAIN task_state
Workers == DOMAIN workers

WorkerDone(w) == workers[w].pc \in {"terminated", "returned", "cancelled", "crashed"}
TaskFinished(u) == task_state[u] \in {"ok", "raised", "cancelled"}
FutureDone(u) == future[u] \in {"result", "exception", "cancelled"}

\* ---------------------------------------------------------------- TaskPool

\* TaskPool.__init__: an empty queue and num_workers worker loops, each
\* suspended in tasks.get().
NewWorkers(num_workers) == [w \in 1..num_workers |-> [pc |-> "get", cur |-> None, must_cancel |-> FALSE]]

\* Future.set_result / Future.set_exception: a pending future takes the
\* outcome; a future that is already done raises InvalidStateError.
SetFuture(state, outcome) == IF state = "pending" THEN outcome ELSE "InvalidStateError"

\* The caller does not count the unit.
submitUncounted(u) ==
    /\ tasks' = Append(tasks, u)
    /\ future' = [future EXCEPT ![u] = "pending"]
    /\ task_state' = [task_state EXCEPT ![u] = "running"]
    /\ pending_tasks' = pending_tasks

\* TaskPool.submit, as both callers use it: the unit is an asyncio.Task that
\* create_task has already started, the handle gets the caller's
\* done-callback and the caller counts it in pending_tasks.
submit(u) ==
    /\ tasks' = Append(tasks, u)
    /\ future' = [future EXCEPT ![u] = "pending"]
    /\ task_state' = [task_state EXCEPT ![u] = "running"]
    /\ pending_tasks' = pending_tasks + 1

\* A worker loop suspended in tasks.get() that has not been cancelled.
Getting(w) == workers[w].pc = "get" /\ ~workers[w].must_cancel

\* TaskPool.worker, lines 23-27: take the next pair; the sentinel ends the loop.
\* The loops suspended in tasks.get() are interchangeable (they hold no unit):
\* the lowest-numbered of them is the one that is woken.
worker_get(w) ==
    /\ Getting(w)
    /\ \A v \in Workers : v < w => ~Getting(v)
    /\ tasks # <<>>
    /\ tasks' = Tail(tasks)
    /\ workers' = [workers EXCEPT ![w] =
          IF Head(tasks) = TERMINATOR
          THEN [@ EXCEPT !.pc = "terminated"]
          ELSE [@ EXCEPT !.pc = "wait", !.cur = Head(tasks)]]
    /\ UNCHANGED <<task_state, future, callbacks, fired, callerVars, nonPoolVars>>

\* The same with the `except Exception` of line 33 left out.
ResolveFutureNoExcept(state, outcome) ==
    IF outcome = "exception" \/ SetFuture(state, outcome) = "InvalidStateError"
    THEN [future |-> state, pc |-> "crashed"]
    ELSE [future |-> SetFuture(state, outcome), pc |-> "get"]

\* The same with the loop left once a failure has been recorded.
ResolveFutureStopOnFailure(state, outcome) ==
    IF outcome = "exception" /\ state = "pending"
    THEN [future |-> "exception", pc |-> "returned"]
    ELSE IF SetFuture(state, outcome) = "InvalidStateError"
         THEN [future |-> state, pc |-> "crashed"]
         ELSE [future |-> SetFuture(state, outcome), pc |-> "get"]

\* What lines 30-37 do with the handle once the awaited unit has finished
\* with `outcome` ("result" or "exception"): set_result raising
\* InvalidStateError is caught by `except Exception`, and set_exception then
\* raises it again outside the try, which ends the worker loop.
ResolveFuture(state, outcome) ==
    LET first == SetFuture(state, outcome)
        second == IF first = "InvalidStateError" /\ outcome = "result"
                  THEN SetFuture(state, "exception") ELSE first
    IN  IF second = "InvalidStateError"
        THEN [future |-> state, pc |-> "crashed"]
        ELSE [future |-> second, pc |-> IF second = "cancelled" THEN "returned" ELSE "get"]

\* TaskPool.worker, lines 29-37: the awaited unit has finished; record its
\* result or its failure on the handle and go on with the loop.
worker_resolve(w) ==
    LET u == workers[w].cur
        outcome == IF task_state[u] = "ok" THEN "result" ELSE "exception"
        r == ResolveFuture(future[u], outcome)
    IN  /\ workers[w].pc = "wait"
        /\ ~workers[w].must_cancel
        /\ task_state[u] \in {"ok", "raised"}
        /\ future' = [future EXCEPT ![u] = r.future]
        /\ callbacks' = IF r.future # future[u] THEN callbacks \cup {u} ELSE callbacks
        /\ workers' = [workers EXCEPT ![w] = [@ EXCEPT !.pc = r.pc, !.cur = None]]
        /\ UNCHANGED <<tasks, task_state, fired, callerVars, nonPoolVars>>

\* TaskPool.worker, lines 38-40: CancelledError is raised at the await the
\* loop is suspended in (tasks.get() or wait_for), after the awaited unit has
\* itself been cancelled; it is not an Exception, so no handle is touched.
worker_cancelled(w) ==
    /\ workers[w].pc \in {"get", "wait"}
    /\ workers[w].must_cancel
    /\ workers[w].pc = "wait" => TaskFinished(workers[w].cur)
    /\ workers' = [workers EXCEPT ![w] = [@ EXCEPT !.pc = "cancelled"]]
    /\ UNCHANGED <<tasks, task_state, future, callbacks, fired, callerVars, nonPoolVars>>

\* Task.cancel() of one worker loop: a finished loop ignores it; a loop
\* suspended in wait_for passes the request on to the unit it awaits.
CancelWorkers(ws) == [w \in DOMAIN ws |-> IF ws[w].pc \in {"get", "wait"} THEN [ws[w] EXCEPT !.must_cancel = TRUE] ELSE ws[w]]

CancelAwaited(ts) == [u \in DOMAIN ts |-> IF ts[u] = "running" /\ \E w \in Workers : workers[w].pc = "wait" /\ workers[w].cur = u THEN "cancelling" ELSE ts[u]]

\* TaskPool.cancel_all
cancel_all ==
    /\ workers' = CancelWorkers(workers)
    /\ task_state' = CancelAwaited(task_state)

\* TaskPool.join, lines 55-56: one sentinel per worker behind the backlog.
Terminators(n) == [i \in 1..n |-> TERMINATOR]

\* The sentinels are put in front of the backlog.
join_put_first == tasks' = Terminators(Cardinality(Workers)) \o tasks

join_put == tasks' = tasks \o Terminators(Cardinality(Workers))

\* gather without return_exceptions: the first failure or cancellation of a
\* loop is raised in join().
GatherPropagating(ws, return_exceptions) ==
    IF \A w \in DOMAIN ws : ws[w].pc \in {"terminated", "returned"} THEN "returned" ELSE "raised"

\* asyncio.gather(*self.workers, return_exceptions=...): with
\* return_exceptions the failures and cancellations of the loops are results.
Gather(ws, return_exceptions) ==
    IF return_exceptions \/ \A w \in DOMAIN ws : ws[w].pc \in {"terminated", "returned"}
    THEN "returned" ELSE "raised"

\* TaskPool.join, line 58: all worker loops have ended. The event loop runs
\* callbacks in the order they were scheduled, so the done-callbacks of the
\* handles resolved by a loop run before the waiter of gather is woken.
join_return ==
    /\ caller = "joining"
    /\ \A w \in Workers : WorkerDone(w)
    /\ callbacks = {}
    /\ caller' = "joined"
    /\ join_result' = Gather(workers, TRUE)
    /\ UNCHANGED <<poolVars, pending_tasks, cancel_called, locals, nonPoolVars>>

\* decrementPending, the done-callback of every handle.
decrementPending(u) ==
    /\ u \in callbacks
    /\ callbacks' = callbacks \ {u}
    /\ fired' = [fired EXCEPT ![u] = @ + 1]
    /\ pending_tasks' = pending_tasks - 1
    /\ UNCHANGED <<tasks, workers, task_state, future, caller, cancel_called, join_result, locals, nonPoolVars>>

\* ------------------------------------------------- the pool with test units

\* test_task_pool.py:15-16: create_task + submit + add_done_callback. The
\* units are numbered in the order in which the caller submits them.
Submit(u) ==
    /\ caller = "running"
    /\ task_state[u] = "none"
    /\ \A v \in Units : v[2] < u[2] => task_state[v] # "none"
    /\ submit(u)
    /\ UNCHANGED <<workers, callbacks, fired, caller, cancel_called, join_result, locals, nonPoolVars>>

\* A unit of the pool tests returns.
UnitReturns(u) ==
    /\ task_state[u] = "running"
    /\ task_state' = [task_state EXCEPT ![u] = "ok"]
    /\ UNCHANGED <<tasks, workers, future, callbacks, fired, callerVars, nonPoolVars>>

\* throw_on_call (test_task_pool.py:9-11): the unit raises.
UnitRaises(u) ==
    /\ task_state[u] = "running"
    /\ task_state' = [task_state EXCEPT ![u] = "raised"]
    /\ UNCHANGED <<tasks, workers, future, callbacks, fired, callerVars, nonPoolVars>>

\* A unit whose cancellation was requested gets CancelledError at its await.
UnitCancelled(u) ==
    /\ task_state[u] = "cancelling"
    /\ task_state' = [task_state EXCEPT ![u] = "cancelled"]
    /\ UNCHANGED <<tasks, workers, future, callbacks, fired, callerVars, nonPoolVars>>

\* The caller calls cancel_all().
CancelAll ==
    /\ caller = "running"
    /\ ~cancel_called
    /\ cancel_all
    /\ cancel_called' = TRUE
    /\ UNCHANGED <<tasks, future, callbacks, fired, pending_tasks, caller, join_result, locals, nonPoolVars>>

\* The caller cancels a handle it holds (Future.cancel schedules the
\* done-callbacks).
HandleCancel(u) ==
    /\ caller = "running"
    /\ future[u] = "pending"
    /\ future' = [future EXCEPT ![u] = "cancelled"]
    /\ callbacks' = callbacks \cup {u}
    /\ UNCHANGED <<tasks, workers, task_state, fired, callerVars, nonPoolVars>>

\* The caller calls join() (test_task_pool.py:31).
Join ==
    /\ caller = "running"
    /\ join_put
    /\ caller' = "joining"
    /\ UNCHANGED <<workers, task_state, future, callbacks, fired, pending_tasks, cancel_called, join_result, locals, nonPoolVars>>

\* TaskPool(num_workers) just constructed, and the handles the caller will hold.
NewPool(num_workers, units) ==
    /\ tasks = <<>>
    /\ workers = NewWorkers(num_workers)
    /\ task_state = [u \in units |-> "none"]
    /\ future = [u \in units |-> "none"]
    /\ callbacks = {}
    /\ fired = [u \in units |-> 0]

\* A specification without entities, cursors or pipelines.
NoStore ==
    /\ metadata_status = <<>>
    /\ metadata = <<>>
    /\ records = {}
    /\ cache = {}
    /\ pipe = <<>>
    /\ downloads = <<>>
    /\ content = <<>>
    /\ current = <<>>
    /\ returned = NoCall
    /\ pass_keys = <<>>

\* next_item and next_place before the first query has returned.
NoLocals == [next_item |-> None, next_place |-> None]

CallerInit ==
    /\ pending_tasks = 0
    /\ caller = "running"
    /\ cancel_called = FALSE
    /\ join_result = "none"
    /\ locals = NoLocals

PoolInit == NewPool(PoolWorkers, PoolUnits) /\ CallerInit /\ NoStore

PoolCancelInit == NewPool(PoolWorkers, CancelPoolUnits) /\ CallerInit /\ NoStore

PoolStep ==
    \/ \E w \in Workers : worker_get(w)
    \/ \E w \in Workers : worker_resolve(w)
    \/ \E u \in Units : decrementPending(u)
    \/ \E u \in Units : UnitReturns(u)
    \/ \E u \in Units : UnitRaises(u)
    \/ join_return

\* The event loop runs every coroutine that is ready, and the test units end.
PoolFairness ==
    /\ WF_vars(\E w \in Workers : worker_get(w))
    /\ WF_vars(\E w \in Workers : worker_resolve(w))
    /\ WF_vars(\E u \in Units : decrementPending(u))
    /\ WF_vars(\E u \in Units : UnitReturns(u) \/ UnitRaises(u))
    /\ WF_vars(join_return)

PoolNext ==
    \/ \E u \in Units : Submit(u)
    \/ Join
    \/ PoolStep

\* The pool and a caller that never cancels.
PoolSpec == PoolInit /\ [][PoolNext]_vars /\ PoolFairness

PoolCancelNext ==
    \/ \E u \in Units : Submit(u)
    \/ Join
    \/ PoolStep
    \/ CancelAll
    \/ \E u \in Units : HandleCancel(u)
    \/ \E w \in Workers : worker_cancelled(w)
    \/ \E u \in Units : UnitCancelled(u)

\* The pool and a caller that may cancel the pool or a handle.
PoolCancelSpec ==
    /\ PoolCancelInit /\ [][PoolCancelNext]_vars /\ PoolFairness
    /\ WF_vars(\E w \in Workers : worker_cancelled(w))
    /\ WF_vars(\E u \in Units : UnitCancelled(u))

\* ------------------------------------------------------------------ Cursor

\* MetadataType (worker.py:27-31) and the model class of each cursor
\* (daemon.py:36-38).
Kinds == {"Item", "Place", "Contract"}

\* The key a cursor orders by: transient_id, or the address of a contract
\* (addresses are compared as strings; the model numbers them in that order).
KeyOf(e) == e[2]

EntitiesOf(kind) == {e \in DOMAIN metadata_status : e[1] = kind /\ metadata_status[e] # "absent"}

\* The first query of a pass without the metadata_status filter.
FilterFirstAnyStatus(kind) == {e \in EntitiesOf(kind) : KeyOf(e) >= 0}

\* model_class.filter(<order_by>__gte=0, metadata_status=New), cursor.py:17-21
FilterFirst(kind) == {e \in EntitiesOf(kind) : KeyOf(e) >= 0 /\ metadata_status[e] = "New"}

\* The query after the first with __gte in the place of __gt.
FilterAfterOrAt(kind, cur) == {e \in EntitiesOf(kind) : KeyOf(e) >= KeyOf(cur) /\ metadata_status[e] = "New"}

\* The same without the metadata_status filter.
FilterAfterAnyStatus(kind, cur) == {e \in EntitiesOf(kind) : KeyOf(e) > KeyOf(cur)}

\* model_class.filter(<order_by>__gt=current.<order_by>, metadata_status=New),
\* cursor.py:23-27
FilterAfter(kind, cur) == {e \in EntitiesOf(kind) : KeyOf(e) > KeyOf(cur) /\ metadata_status[e] = "New"}

\* QuerySet.order_by(self.order_by): the rows in ascending key order.
RECURSIVE OrderBy(_)
OrderBy(rows) ==
    IF rows = {} THEN <<>>
    ELSE LET lowest == CHOOSE e \in rows : \A x \in rows : KeyOf(e) <= KeyOf(x)
         IN  <<lowest>> \o OrderBy(rows \ {lowest})

\* QuerySet.first(): the first row, or None.
First(rows) == IF rows = <<>> THEN None ELSE Head(rows)

\* The query of Cursor.next, cursor.py:16-27
Query(kind, cur) ==
    IF cur = None THEN First(OrderBy(FilterFirst(kind))) ELSE First(OrderBy(FilterAfter(kind, cur)))

\* Line 30 without the `if next is not None` of line 29.
Advance(cur, next) == next

\* cursor.py:29-30: the cursor moves only when an entity was found.
Remember(cur, next) == IF next # None THEN next ELSE cur

\* Cursor.next
CursorNext(kind) ==
    LET next == Query(kind, current[kind])
    IN  /\ current' = [current EXCEPT ![kind] = Remember(@, next)]
        /\ returned' = [kind |-> kind, value |-> next]
        /\ pass_keys' = IF next = None THEN pass_keys ELSE [pass_keys EXCEPT ![kind] = Append(@, KeyOf(next))]

\* Cursor.reset
CursorReset(kind) ==
    /\ current' = [current EXCEPT ![kind] = None]
    /\ returned' = NoCall
    /\ pass_keys' = [pass_keys EXCEPT ![kind] = <<>>]

\* Cursor.__init__ for each of `kinds`.
NewCursors(kinds) ==
    /\ current = [k \in kinds |-> None]
    /\ returned = NoCall
    /\ pass_keys = [k \in kinds |-> <<>>]

\* ------------------------------------------------- one cursor and the store

ItemEntities == {<<"Item", k>> : k \in 0..MaxKey}

\* A caller calls next() on the item cursor.
Next_(kind) ==
    /\ CursorNext(kind)
    /\ UNCHANGED <<poolVars, callerVars, storeVars, pipeVars>>

\* A caller calls reset() on the item cursor.
Reset(kind) ==
    /\ CursorReset(kind)
    /\ UNCHANGED <<poolVars, callerVars, storeVars, pipeVars>>

\* The indexer creates an entity; it starts New (test_worker.py:40-60).
CreateEntity(e) ==
    /\ metadata_status[e] = "absent"
    /\ metadata_status' = [metadata_status EXCEPT ![e] = "New"]
    /\ returned' = NoCall
    /\ UNCHANGED <<poolVars, callerVars, metadata, records, cache, pipeVars, current, pass_keys>>

\* A pipeline saves the outcome of a New entity.
SaveOutcome(e, outcome) ==
    /\ metadata_status[e] = "New"
    /\ metadata_status' = [metadata_status EXCEPT ![e] = outcome]
    /\ returned' = NoCall
    /\ UNCHANGED <<poolVars, callerVars, metadata, records, cache, pipeVars, current, pass_keys>>

CursorInit ==
    /\ NewPool(0, {}) /\ CallerInit
    /\ metadata_status = [e \in ItemEntities |-> "absent"]
    /\ metadata = [e \in ItemEntities |-> None]
    /\ records = {} /\ cache = {}
    /\ pipe = <<>> /\ downloads = <<>> /\ content = <<>>
    /\ NewCursors({"Item"})

CursorSpecNext ==
    \/ Next_("Item")
    \/ Reset("Item")
    \/ \E e \in ItemEntities : CreateEntity(e)
    \/ \E e \in ItemEntities : \E outcome \in {"Valid", "Invalid", "Failed"} : SaveOutcome(e, outcome)

\* One cursor, the indexer creating entities and pipelines finishing them.
CursorSpec == CursorInit /\ [][CursorSpecNext]_vars

\* --------------------------------------------------------------- pipelines

\* config.py:19: polygon_count_error, in basis points.
polygon_count_error == 500

\* config.py:76: download_retries of the test environment.
download_retries == 1

\* Config('test'), as far as the pipelines read it.
TestConfig == [download_retries |-> download_retries, polygon_count_error |-> polygon_count_error]

\* worker.py:107: sleep_time = 10
sleep_time == 10

\* worker.py:108: backoff_factor = 1.5, as the fraction 3 / 2.
backoff_factor_num == 3

backoff_factor_den == 2

\* Delays are counted in units of 1 / TimeUnit seconds, in which every
\* delay of up to MaxRetries attempts is a whole number.
TimeUnit == backoff_factor_den ^ MaxRetries

\* ipfs_download_retry before it is called: no request made, no sleep.
NoRetry == [pc |-> "idle", attempt |-> 0, sleep_time |-> 0, requests |-> <<>>, slept |-> <<>>]

\* What the gateways serve for a metadata_uri: a manifest that passes every
\* check, a manifest without a required field, a manifest whose artifact
\* has another size than the manifest declares, or a body that is not JSON.
Contents == {"valid", "invalid_fields", "invalid_artifact", "not_json"}

\* The status the content behind the metadata_uri determines for an entity.
Determined(kind, manifest) ==
    IF manifest = "valid" \/ (manifest \in {"invalid_artifact", "no_tags"} /\ kind # "Item") THEN "Valid" ELSE "Invalid"

\* The keys the `required fields` block of the kind reads with getOrRaise
\* (worker.py:175-176, 256-259, 323-359).
RequiredOf(kind) ==
    IF kind = "Item" THEN {"polygonCount", "baseScale", "artifactUri", "formats", "tags"}
    ELSE IF kind = "Place" THEN {"placeType", "borderCoordinates", "centerCoordinates", "buildHeight"}
    ELSE {"name", "description"}

\* The key the manifests without a required field lack (the manifest of
\* items 3 and places 3 of the tests).
MissingOf(kind) == IF kind = "Item" THEN "polygonCount" ELSE IF kind = "Place" THEN "placeType" ELSE "name"

\* The keys of a manifest as the pipeline of the kind sees them; None, the
\* result for a body that is not JSON, has none. The manifest "no_tags" has
\* every key of a valid one but `tags`.
FieldsOf(kind, manifest) ==
    IF manifest \in {"valid", "invalid_artifact"} THEN RequiredOf(kind)
    ELSE IF manifest = "invalid_fields" THEN RequiredOf(kind) \ {MissingOf(kind)}
    ELSE IF manifest = "no_tags" THEN RequiredOf(kind) \ {"tags"}
    ELSE {}

\* The `required fields` block catches nothing.
RequiredFieldsUnchecked(kind, manifest) == TRUE

\* The `required fields` block: every getOrRaise finds its key. On None,
\* the first getOrRaise raises (None has no get), which the same
\* `except Exception` catches.
RequiredFields(kind, manifest) == RequiredOf(kind) \subseteq FieldsOf(kind, manifest)

\* Where the pipeline goes once download_and_cache_metadata has returned:
\* the `required fields` block runs without suspension.
AfterManifest(kind, manifest) ==
    IF ~RequiredFields(kind, manifest) THEN "save_invalid"
    ELSE IF kind = "Item" THEN "artifact" ELSE "persist"

Running(e) == task_state[e] = "running"

At(e, pc) == Running(e) /\ pipe[e].pc = pc

Goto(e, pc) == pipe' = [pipe EXCEPT ![e] = [@ EXCEPT !.pc = pc]]

\* process_metadata returns whatever the pipeline raised.
FinishSwallowing(e, outcome) == task_state' = [task_state EXCEPT ![e] = "ok"]

\* process_metadata returns, or raises what the pipeline raised.
Finish(e, outcome) == task_state' = [task_state EXCEPT ![e] = outcome]

\* The store takes whatever link is written.
ForeignKeyUnchecked(link) == TRUE

\* Model.save(): every field of the local object is written. The link to
\* the derived metadata record is a foreign key.
ForeignKeyHolds(link) == link = None \/ link \in records

\* asyncio.create_task(processing.process_metadata((kind, id)))
NewPipeline ==
    [pc |-> "get", uri |-> "", link |-> None, manifest |-> "None", fault |-> FALSE,
     config |-> TestConfig, retry |-> NoRetry, artifact_retry |-> NoRetry,
     polygon_count |-> 0, counted_polygons |-> 0]

\* The pipeline goes on whatever is attached.
EarlyOutNever(link) == FALSE

\* worker.py:156, 238, 305: `if <entity>.metadata is not None: return`
EarlyOut(link) == link # None

\* process_*: <Model>.get(...).prefetch_related("metadata") and the early out.
process_get(e) ==
    /\ At(e, "get")
    /\ IF EarlyOut(metadata[e])
       THEN /\ pipe' = [pipe EXCEPT ![e] = [@ EXCEPT !.pc = "done", !.link = metadata[e]]]
            /\ Finish(e, "ok")
       ELSE /\ Goto(e, "existing")
            /\ UNCHANGED task_state
    /\ UNCHANGED <<tasks, workers, future, callbacks, fired, callerVars, storeVars, downloads, content, cursorVars>>

\* The lookup finds nothing.
get_or_none_nothing(rows, key) == None

\* <Model>.get_or_none(<key>): the row of the key, or None.
get_or_none(rows, key) == IF key \in rows THEN key ELSE None

\* process_*: <Metadata>.get_or_none(...) for the same logical identity.
process_existing(e) ==
    /\ At(e, "existing")
    /\ IF get_or_none(records, e) # None
       THEN pipe' = [pipe EXCEPT ![e] = [@ EXCEPT !.pc = "save_existing", !.link = e]]
       ELSE Goto(e, "cache_lookup")
    /\ UNCHANGED <<poolVars, callerVars, storeVars, downloads, content, cursorVars>>

\* process_*: the existing record is attached and the entity saved Valid.
process_save_existing(e) ==
    /\ At(e, "save_existing")
    /\ IF ForeignKeyHolds(pipe[e].link)
       THEN /\ metadata_status' = [metadata_status EXCEPT ![e] = "Valid"]
            /\ metadata' = [metadata EXCEPT ![e] = pipe[e].link]
            /\ Finish(e, "ok")
       ELSE /\ UNCHANGED <<metadata_status, metadata>>
            /\ Finish(e, "raised")
    /\ Goto(e, "done")
    /\ UNCHANGED <<tasks, workers, future, callbacks, fired, callerVars, records, cache, downloads, content, cursorVars>>

\* The cache answers a lookup whatever it holds with "no entry".
CacheMiss(uri) == {}

\* IpfsMetadataCache.get_or_none(metadata_uri=...): the rows of the URI.
CacheRows(uri) == cache \cap {uri}

\* download_and_cache_metadata, lines 129-135: the cache lookup.
cache_lookup(e) ==
    /\ At(e, "cache_lookup")
    /\ IF CacheRows(pipe[e].uri) # {}
       THEN pipe' = [pipe EXCEPT ![e] = [@ EXCEPT !.manifest = content[pipe[e].uri],
                                                  !.pc = AfterManifest(e[1], content[pipe[e].uri])]]
       ELSE Goto(e, "download")
    /\ UNCHANGED <<poolVars, callerVars, storeVars, downloads, content, cursorVars>>

\* download_and_cache_metadata, line 137: ipfs_download_retry of the manifest
\* returns the body, or has exhausted its retries.
download(e, exhausted) ==
    /\ At(e, "download")
    /\ downloads' = [downloads EXCEPT ![pipe[e].uri] = IF @ < MaxDownloads THEN @ + 1 ELSE @]
    /\ pipe' = [pipe EXCEPT ![e] =
          IF exhausted THEN [@ EXCEPT !.pc = "save_failed", !.fault = TRUE]
          ELSE IF content[pipe[e].uri] = "not_json" THEN [@ EXCEPT !.pc = "save_not_json"]
          ELSE [@ EXCEPT !.pc = "cache_create", !.manifest = content[pipe[e].uri]]]
    /\ UNCHANGED <<poolVars, callerVars, storeVars, content, cursorVars>>

\* download_and_cache_metadata, lines 139-143: the body is bytes; the entity
\* is saved Invalid and None is returned, on which the first getOrRaise of
\* the caller fails.
save_not_json(e) ==
    /\ At(e, "save_not_json")
    /\ IF ForeignKeyHolds(pipe[e].link)
       THEN /\ metadata_status' = [metadata_status EXCEPT ![e] = "Invalid"]
            /\ metadata' = [metadata EXCEPT ![e] = pipe[e].link]
            /\ Goto(e, AfterManifest(e[1], "None"))
       ELSE /\ UNCHANGED <<metadata_status, metadata>>
            /\ Goto(e, "save_failed")
    /\ UNCHANGED <<poolVars, callerVars, records, cache, downloads, content, cursorVars>>

\* The uniqueness constraints of the store, on the cache by metadata_uri and
\* on the derived metadata records by logical identity: a create for a key
\* that has a row is refused with an IntegrityError.
UniqueViolation(rows, key) == key \in rows

\* download_and_cache_metadata, lines 145-148: the manifest is cached, unless
\* the store refuses the row; the failure leaves the cache transaction.
cache_create(e) ==
    /\ At(e, "cache_create")
    /\ IF UniqueViolation(cache, pipe[e].uri)
       THEN /\ Goto(e, "save_failed")
            /\ UNCHANGED cache
       ELSE /\ cache' = cache \cup {pipe[e].uri}
            /\ Goto(e, AfterManifest(e[1], pipe[e].manifest))
    /\ UNCHANGED <<poolVars, callerVars, metadata_status, metadata, records, downloads, content, cursorVars>>

\* The excess is accepted up to and including the tolerance.
PolygonsRejectedAtTolerance(polygon_count, counted_polygons, error) ==
    LET diff == IF counted_polygons - polygon_count > 0 THEN counted_polygons - polygon_count ELSE 0
    IN  diff * 10000 >= polygon_count * error

\* process_item_token, lines 385-390: diff = max(0, counted - declared),
\* maxDiff = declared * polygon_count_error / 10000.00, and `diff > maxDiff`
\* raises (both sides multiplied by 10000).
PolygonsRejected(polygon_count, counted_polygons, error) ==
    LET diff == IF counted_polygons - polygon_count > 0 THEN counted_polygons - polygon_count ELSE 0
    IN  diff * 10000 > polygon_count * error

\* process_item_token, lines 375-398: the `model invalid` block raises when
\* the size of the artifact is not the declared one or the polygon check fails.
ModelInvalid(p) ==
    \/ p.manifest = "invalid_artifact"
    \/ PolygonsRejected(p.polygon_count, p.counted_polygons, p.config.polygon_count_error)

\* process_item_token, lines 373-398: the artifact is downloaded and its
\* size and polygon count are checked.
artifact(e, exhausted) ==
    /\ At(e, "artifact")
    /\ pipe' = [pipe EXCEPT ![e] =
          IF exhausted THEN [@ EXCEPT !.pc = "save_failed", !.fault = TRUE]
          ELSE IF ModelInvalid(pipe[e]) THEN [@ EXCEPT !.pc = "save_invalid"]
          ELSE [@ EXCEPT !.pc = "persist"]]
    /\ UNCHANGED <<poolVars, callerVars, storeVars, downloads, content, cursorVars>>

\* process_*: `required fields` or `model invalid`: saved Invalid, return.
save_invalid(e) ==
    /\ At(e, "save_invalid")
    /\ IF ForeignKeyHolds(pipe[e].link)
       THEN /\ metadata_status' = [metadata_status EXCEPT ![e] = "Invalid"]
            /\ metadata' = [metadata EXCEPT ![e] = pipe[e].link]
            /\ Goto(e, "done")
            /\ Finish(e, "ok")
       ELSE /\ UNCHANGED <<metadata_status, metadata, task_state>>
            /\ Goto(e, "save_failed")
    /\ UNCHANGED <<tasks, workers, future, callbacks, fired, callerVars, records, cache, downloads, content, cursorVars>>

\* Every failure is handled by the `except Exception` clause.
ExceptClauseAllFailed(error) == "save_failed"

\* process_*: the two except clauses of the outer try (worker.py:438-445): a
\* TransactionManagementError is raised again, wrapped; anything else marks
\* the entity Failed.
ExceptClause(error) == IF error = "TransactionManagementError" THEN "raise" ELSE "save_failed"

\* process_*: the transaction that creates the derived metadata record,
\* saves the entity Valid with the record attached and writes the tags. It
\* commits as a whole ("commit"), or it is rolled back: by a
\* TransactionManagementError ("transaction"), or by a failure of a tag
\* write after the record was assigned to the local object ("tags").
persist(e, how) ==
    /\ At(e, "persist")
    /\ how = "tags" => e[1] # "Place"
    /\ IF how = "transaction"
       THEN /\ IF ExceptClause("TransactionManagementError") = "raise"
               THEN /\ pipe' = [pipe EXCEPT ![e] = [@ EXCEPT !.pc = "done", !.fault = TRUE]]
                    /\ Finish(e, "raised")
               ELSE /\ pipe' = [pipe EXCEPT ![e] = [@ EXCEPT !.pc = "save_failed", !.fault = TRUE]]
                    /\ UNCHANGED task_state
            /\ UNCHANGED <<metadata_status, metadata, records>>
       ELSE IF UniqueViolation(records, e)
       THEN /\ Goto(e, "save_failed")
            /\ UNCHANGED <<task_state, metadata_status, metadata, records>>
       ELSE IF how = "tags"
       THEN /\ pipe' = [pipe EXCEPT ![e] = [@ EXCEPT !.pc = "save_failed", !.link = e, !.fault = TRUE]]
            /\ UNCHANGED <<task_state, metadata_status, metadata, records>>
       ELSE /\ records' = records \cup {e}
            /\ metadata_status' = [metadata_status EXCEPT ![e] = "Valid"]
            /\ metadata' = [metadata EXCEPT ![e] = e]
            /\ pipe' = [pipe EXCEPT ![e] = [@ EXCEPT !.pc = "done", !.link = e]]
            /\ Finish(e, "ok")
    /\ UNCHANGED <<tasks, workers, future, callbacks, fired, callerVars, cache, downloads, content, cursorVars>>

\* process_*: `except Exception`: the entity is saved Failed and the
\* pipeline returns; a save that fails is raised to process_metadata.
save_failed(e) ==
    /\ At(e, "save_failed")
    /\ IF ForeignKeyHolds(pipe[e].link)
       THEN /\ metadata_status' = [metadata_status EXCEPT ![e] = "Failed"]
            /\ metadata' = [metadata EXCEPT ![e] = pipe[e].link]
            /\ Finish(e, "ok")
       ELSE /\ UNCHANGED <<metadata_status, metadata>>
            /\ Finish(e, "raised")
    /\ Goto(e, "done")
    /\ UNCHANGED <<tasks, workers, future, callbacks, fired, callerVars, records, cache, downloads, content, cursorVars>>

\* One step of the pipeline of e.
PipelineStep(e) ==
    \/ process_get(e)
    \/ process_existing(e)
    \/ process_save_existing(e)
    \/ cache_lookup(e)
    \/ \E exhausted \in BOOLEAN : download(e, exhausted)
    \/ save_not_json(e)
    \/ cache_create(e)
    \/ \E exhausted \in BOOLEAN : artifact(e, exhausted)
    \/ save_invalid(e)
    \/ \E how \in {"commit", "transaction", "tags"} : persist(e, how)
    \/ save_failed(e)

\* ------------------------------------------- pipelines run side by side

\* The entities of the test database (test_worker.py:62-76): an item and a
\* place are created with the same metadata_uri.
UriOf(e) == IF e[1] = "Contract" THEN "ipfs://B" ELSE "ipfs://A"

Uris == {"ipfs://A", "ipfs://B"}

PipeEntities == {<<"Item", 1>>, <<"Item", 2>>, <<"Place", 1>>, <<"Contract", 1>>}

\* process_metadata((kind, id)) is started for a New entity.
StartPipeline(e) ==
    /\ task_state[e] = "none"
    /\ metadata_status[e] = "New"
    /\ Cardinality({x \in Units : Running(x)}) < MaxRunning
    /\ task_state' = [task_state EXCEPT ![e] = "running"]
    /\ pipe' = [pipe EXCEPT ![e] = [NewPipeline EXCEPT !.uri = UriOf(e)]]
    /\ UNCHANGED <<tasks, workers, future, callbacks, fired, callerVars, storeVars, downloads, content, cursorVars>>

PipeInit ==
    /\ tasks = <<>>
    /\ workers = NewWorkers(0)
    /\ task_state = [e \in PipeEntities |-> "none"]
    /\ future = [e \in PipeEntities |-> "none"]
    /\ callbacks = {}
    /\ fired = [e \in PipeEntities |-> 0]
    /\ CallerInit
    /\ metadata_status = [e \in PipeEntities |-> "New"]
    /\ records \in SUBSET {<<"Contract", 1>>}
    /\ metadata \in {[e \in PipeEntities |-> IF e \in attached THEN e ELSE None] : attached \in SUBSET records}
    /\ cache = {}
    /\ pipe = [e \in PipeEntities |-> [NewPipeline EXCEPT !.uri = UriOf(e)]]
    /\ downloads = [u \in Uris |-> 0]
    /\ content \in [Uris -> Contents]
    /\ NewCursors({})

PipeNext ==
    \/ \E e \in PipeEntities : StartPipeline(e)
    \/ \E e \in PipeEntities : PipelineStep(e)

\* Pipelines started directly, as the worker tests do, and run concurrently.
PipeSpec == PipeInit /\ [][PipeNext]_vars

\* -------------------------------------------------------------- the daemon

\* config.py:77: processing_workers of the test environment.
processing_workers == 1

\* The entities of the database the daemon runs on: one of each kind, the
\* item and the place with the same metadata_uri. The item is created by the
\* indexer while the daemon runs.
DaemonEntities == {<<"Item", 1>>, <<"Place", 1>>, <<"Contract", 1>>}

CreatedLater == {<<"Item", 1>>}

\* What the gateways serve in the runs of the daemon: a manifest that passes
\* every check or a body that is not JSON.
DaemonContents == {"valid", "not_json"}

\* The fill loop is never entered.
WhileQsizeNever(q) == "sleep"

\* daemon.py:62: `while task_pool.tasks.qsize() < config.processing_workers * 2`
\* either enters the loop body, where the orchestrator is suspended in
\* item_cursor.next(), or falls through to asyncio.sleep(1).
WhileQsize(q) == IF Len(q) < processing_workers * 2 THEN "Item" ELSE "sleep"

\* The cursors are reset whatever is pending.
AllTasksDoneAlways(pending) == TRUE

\* daemon.py:80: `if pending_tasks <= 0`
AllTasksDone(pending) == pending <= 0

\* Only the item cursor is reset.
ResetItemCursor(cur) == [cur EXCEPT !["Item"] = None]

\* daemon.py:81-83: reset() of the three cursors.
ResetCursors(cur) == [kind \in DOMAIN cur |-> None]

\* The store answers the query of the next() the orchestrator is suspended
\* in (cursor.py:16-27); the orchestrator is resumed in a later step.
cursor_query(kind) ==
    /\ caller = kind
    /\ returned = NoCall
    /\ returned' = [kind |-> kind, value |-> Query(kind, current[kind])]
    /\ UNCHANGED <<poolVars, callerVars, storeVars, pipeVars, current, pass_keys>>

\* daemon.py:65-66, 70-71, 75-76: pending_tasks += 1, create_task of
\* process_metadata, submit, add_done_callback on the new handle.
submit_pipeline(e) ==
    /\ submit(e)
    /\ fired' = [fired EXCEPT ![e] = 0]
    /\ pipe' = [pipe EXCEPT ![e] = [NewPipeline EXCEPT !.uri = UriOf(e)]]

\* cursor.py:29-32 and daemon.py:63-66 / 68-71: next() of the item or the
\* place cursor returns; what it found is submitted, and the orchestrator
\* calls next() of the cursor `after`.
next_returns(kind, after) ==
    LET next == returned.value
    IN  /\ caller = kind
        /\ returned # NoCall
        /\ returned.kind = kind
        /\ current' = [current EXCEPT ![kind] = Remember(@, next)]
        /\ pass_keys' = IF next = None THEN pass_keys ELSE [pass_keys EXCEPT ![kind] = Append(@, KeyOf(next))]
        /\ returned' = NoCall
        /\ IF next # None
           THEN submit_pipeline(next)
           ELSE UNCHANGED <<tasks, future, task_state, pending_tasks, fired, pipe>>
        /\ locals' = IF kind = "Item" THEN [locals EXCEPT !.next_item = next] ELSE [locals EXCEPT !.next_place = next]
        /\ caller' = after
        /\ UNCHANGED <<workers, callbacks, cancel_called, join_result, storeVars, downloads, content>>

item_returns == next_returns("Item", "Place")

place_returns == next_returns("Place", "Contract")

\* cursor.py:29-32 and daemon.py:73-84: next() of the contract cursor
\* returns; what it found is submitted; when neither an item nor a place was
\* found the pass ends, with a reset of the cursors if nothing is pending;
\* otherwise the loop condition is evaluated again.
contract_returns ==
    LET next == returned.value
        pending == IF next # None THEN pending_tasks + 1 ELSE pending_tasks
        pass_over == locals.next_item = None /\ locals.next_place = None
        reset == pass_over /\ AllTasksDone(pending)
    IN  /\ caller = "Contract"
        /\ returned # NoCall
        /\ returned.kind = "Contract"
        /\ current' = IF reset THEN ResetCursors(current)
                      ELSE [current EXCEPT !["Contract"] = Remember(@, next)]
        /\ pass_keys' = IF reset THEN [kind \in DOMAIN pass_keys |-> <<>>]
                        ELSE IF next = None THEN pass_keys
                        ELSE [pass_keys EXCEPT !["Contract"] = Append(@, KeyOf(next))]
        /\ returned' = NoCall
        /\ IF next # None
           THEN submit_pipeline(next)
           ELSE UNCHANGED <<tasks, future, task_state, pending_tasks, fired, pipe>>
        /\ locals' = NoLocals
        /\ caller' = IF pass_over THEN "sleep" ELSE WhileQsize(tasks')
        /\ UNCHANGED <<workers, callbacks, cancel_called, join_result, storeVars, downloads, content>>

\* daemon.py:86: asyncio.sleep(1) is over; the loop condition is evaluated.
wake ==
    /\ caller = "sleep"
    /\ caller' = WhileQsize(tasks)
    /\ UNCHANGED <<poolVars, pending_tasks, cancel_called, join_result, locals, nonPoolVars>>

\* daemon.py:88-93 and 110-111: SIGINT or SIGTERM cancels the orchestrator at
\* the await it is suspended in; `finally` calls cancel_all() and join().
shutdown ==
    /\ caller \in {"Item", "Place", "Contract", "sleep"}
    /\ cancel_all
    /\ join_put
    /\ cancel_called' = TRUE
    /\ caller' = "joining"
    /\ locals' = NoLocals
    /\ returned' = NoCall
    /\ UNCHANGED <<future, callbacks, fired, pending_tasks, join_result, storeVars, pipeVars, current, pass_keys>>

\* The indexer creates an entity; it starts New.
indexer_creates(e) ==
    /\ metadata_status[e] = "absent"
    /\ metadata_status' = [metadata_status EXCEPT ![e] = "New"]
    /\ UNCHANGED <<poolVars, callerVars, metadata, records, cache, pipeVars, cursorVars>>

DaemonInit ==
    /\ NewPool(processing_workers, DaemonEntities)
    /\ pending_tasks = 0
    /\ caller = WhileQsize(<<>>)
    /\ cancel_called = FALSE
    /\ join_result = "none"
    /\ locals = NoLocals
    /\ metadata_status = [e \in DaemonEntities |-> IF e \in CreatedLater THEN "absent" ELSE "New"]
    /\ records \in SUBSET {<<"Contract", 1>>}
    /\ metadata \in {[e \in DaemonEntities |-> IF e \in attached THEN e ELSE None] : attached \in SUBSET records}
    /\ cache = {}
    /\ pipe = [e \in DaemonEntities |-> [NewPipeline EXCEPT !.uri = UriOf(e)]]
    /\ downloads = [u \in Uris |-> 0]
    /\ content \in [Uris -> DaemonContents]
    /\ NewCursors(Kinds)

DaemonNext ==
    \/ \E kind \in Kinds : cursor_query(kind)
    \/ item_returns
    \/ place_returns
    \/ contract_returns
    \/ wake
    \/ shutdown
    \/ join_return
    \/ \E w \in Workers : worker_get(w)
    \/ \E w \in Workers : worker_resolve(w)
    \/ \E w \in Workers : worker_cancelled(w)
    \/ \E e \in DaemonEntities : decrementPending(e)
    \/ \E e \in DaemonEntities : UnitCancelled(e)
    \/ \E e \in DaemonEntities : PipelineStep(e)
    \/ \E e \in DaemonEntities : indexer_creates(e)

\* token_processing_task with its pool, its cursors and the pipelines it
\* submits, the indexer creating entities and a shutdown at any time.
DaemonSpec == DaemonInit /\ [][DaemonNext]_vars

DaemonRunNext ==
    \/ \E kind \in Kinds : cursor_query(kind)
    \/ item_returns
    \/ place_returns
    \/ contract_returns
    \/ wake
    \/ \E w \in Workers : worker_get(w)
    \/ \E w \in Workers : worker_resolve(w)
    \/ \E e \in DaemonEntities : decrementPending(e)
    \/ \E e \in DaemonEntities : PipelineStep(e)
    \/ \E e \in DaemonEntities : indexer_creates(e)

\* The event loop runs every coroutine that is ready: the store answers,
\* the orchestrator and the worker loops are resumed, the done-callbacks run
\* and every await of a pipeline ends (the downloads give up after
\* download_retries attempts).
DaemonFairness ==
    /\ WF_vars((\E kind \in Kinds : cursor_query(kind)) \/ item_returns \/ place_returns \/ contract_returns \/ wake)
    /\ WF_vars(\/ \E w \in Workers : worker_get(w) \/ worker_resolve(w)
               \/ \E e \in DaemonEntities : decrementPending(e) \/ PipelineStep(e))

\* The databases of the runs without shutdown: every manifest valid and a
\* derived record of the contract left by a prior run, or the body of the
\* contract's metadata_uri not JSON and no record.
DaemonRunInit ==
    /\ DaemonInit
    /\ metadata = [e \in DaemonEntities |-> None]
    /\ content["ipfs://A"] = "valid"
    /\ content["ipfs://B"] = IF records = {} THEN "not_json" ELSE "valid"

\* The daemon as long as no signal stops it.
DaemonRunSpec == DaemonRunInit /\ [][DaemonRunNext]_vars /\ DaemonFairness

\* ------------------------------------- one pipeline, request by request

\* config.ipfs_gateways and config.ipfs_fallback_gateway (config.py:33-41):
\* in production and staging the fallback gateway is also in the pool.
ipfs_gateways == {"nftstorage.link", "backend-ipfs"}

ipfs_fallback_gateway == "backend-ipfs"

\* The retries of the manifest download run while the pipeline is suspended
\* in line 137, those of the artifact download in line 373.
RetryAt(which) == IF which = "retry" THEN "download" ELSE "artifact"

SetRetry(e, which, r) == pipe' = [pipe EXCEPT ![e] = [@ EXCEPT ![which] = r]]

\* The loop is left only after more attempts than download_retries.
GivesUpLate(attempt, retries) == attempt > retries

\* worker.py:116: `if attempt >= self._config.download_retries: break`
GivesUp(attempt, retries) == attempt >= retries

\* The delay stays what it was.
ConstantSleep(t) == t

\* worker.py:121: sleep_time = sleep_time * backoff_factor
NextSleep(t) == (t * backoff_factor_num) \div backoff_factor_den

\* The fallback gateway is requested whatever the first request gave.
AfterPrimaryAlwaysFallback(ok) == "fallback"

\* worker.py:91-97: the result of the first request is returned; a failure
\* of it is caught and the fallback gateway is requested.
AfterPrimary(ok) == IF ok THEN "returned" ELSE "fallback"

\* worker.py:97-102 and 114-124: the result of the fallback request is
\* returned; its failure is raised to ipfs_download_retry, which gives up or
\* sleeps before the next attempt.
AfterFallback(ok, attempt, retries) ==
    IF ok THEN "returned" ELSE IF GivesUp(attempt, retries) THEN "raised" ELSE "sleep"

\* ipfs_download_retry is called (worker.py:106-113) and
\* ipfs_download_fallback sends the request to a gateway of the pool.
ipfs_download_retry(e, which) ==
    /\ At(e, RetryAt(which))
    /\ pipe[e][which].pc = "idle"
    /\ SetRetry(e, which, [NoRetry EXCEPT !.pc = "primary", !.attempt = 1, !.sleep_time = sleep_time * TimeUnit])
    /\ UNCHANGED <<poolVars, callerVars, storeVars, downloads, content, cursorVars>>

\* ipfs_download_fallback, lines 91-97: the request to the random gateway
\* ends, with a body or with a failure.
ipfs_download_primary(e, which, gateway, ok) ==
    LET r == pipe[e][which]
    IN  /\ At(e, RetryAt(which))
        /\ r.pc = "primary"
        /\ SetRetry(e, which, [r EXCEPT
              !.requests = Append(@, [attempt |-> r.attempt, role |-> "primary", gateway |-> gateway, ok |-> ok]),
              !.pc = AfterPrimary(ok)])
        /\ UNCHANGED <<poolVars, callerVars, storeVars, downloads, content, cursorVars>>

\* ipfs_download_fallback, lines 97-102: the request to the fallback gateway
\* ends, with a body or with a failure.
ipfs_download_fallback(e, which, ok) ==
    LET r == pipe[e][which]
    IN  /\ At(e, RetryAt(which))
        /\ r.pc = "fallback"
        /\ SetRetry(e, which, [r EXCEPT
              !.requests = Append(@, [attempt |-> r.attempt, role |-> "fallback", gateway |-> ipfs_fallback_gateway, ok |-> ok]),
              !.pc = AfterFallback(ok, r.attempt, pipe[e].config.download_retries)])
        /\ UNCHANGED <<poolVars, callerVars, storeVars, downloads, content, cursorVars>>

\* ipfs_download_retry, lines 119-122: asyncio.sleep(sleep_time) is over, the
\* delay grows and the next attempt sends its first request.
backoff(e, which) ==
    LET r == pipe[e][which]
    IN  /\ At(e, RetryAt(which))
        /\ r.pc = "sleep"
        /\ SetRetry(e, which, [r EXCEPT
              !.slept = Append(@, r.sleep_time),
              !.sleep_time = NextSleep(@),
              !.attempt = @ + 1,
              !.pc = "primary"])
        /\ UNCHANGED <<poolVars, callerVars, storeVars, downloads, content, cursorVars>>

\* ipfs_download_retry of the manifest has returned or raised (line 124).
download_ends(e) ==
    /\ pipe[e].retry.pc \in {"returned", "raised"}
    /\ download(e, pipe[e].retry.pc = "raised")

\* ipfs_download_retry of the artifact has returned or raised (line 124).
artifact_ends(e) ==
    /\ pipe[e].artifact_retry.pc \in {"returned", "raised"}
    /\ artifact(e, pipe[e].artifact_retry.pc = "raised")

\* The tolerances of the configurations: the default and 50 %.
Tolerances == {polygon_count_error, 10 * polygon_count_error}

\* What the gateways serve in the runs of one pipeline: the contents above
\* and a manifest that is valid but for its missing `tags` key.
ProcessContents == Contents \cup {"no_tags"}

\* One call of process_metadata, as in every test of test_worker.py, on a
\* database with one entity of some kind; for an item the manifest declares
\* polygon_count and the artifact has counted_polygons. The polygon counts
\* and the tolerance vary with the download_retries of the test
\* configuration, the download_retries with the polygon counts at 0; the
\* manifest without tags is served under the test configuration.
ProcessInit ==
    \E e0 \in DaemonEntities, c \in ProcessContents, retries \in 1..MaxRetries, error \in Tolerances,
       declared \in 0..MaxPolygons, counted \in 0..(MaxPolygons + 2) :
        /\ (e0[1] # "Item" \/ c # "valid" \/ retries # download_retries) =>
              (declared = 0 /\ counted = 0 /\ error = polygon_count_error)
        /\ c = "no_tags" => retries = download_retries
        /\ tasks = <<>>
        /\ workers = NewWorkers(0)
        /\ task_state = [e \in DaemonEntities |-> IF e = e0 THEN "running" ELSE "none"]
        /\ future = [e \in DaemonEntities |-> "none"]
        /\ callbacks = {}
        /\ fired = [e \in DaemonEntities |-> 0]
        /\ CallerInit
        /\ metadata_status = [e \in DaemonEntities |-> IF e = e0 THEN "New" ELSE "absent"]
        /\ records \in SUBSET {e0}
        /\ metadata \in {[e \in DaemonEntities |-> IF e \in attached THEN e ELSE None] : attached \in SUBSET records}
        /\ cache \in SUBSET {UriOf(e0)}
        /\ pipe = [e \in DaemonEntities |->
              [NewPipeline EXCEPT !.uri = UriOf(e),
                                  !.config = [download_retries |-> retries, polygon_count_error |-> error],
                                  !.polygon_count = declared,
                                  !.counted_polygons = counted]]
        /\ downloads = [u \in Uris |-> 0]
        /\ content = [u \in Uris |-> c]
        /\ NewCursors({})

ProcessNext ==
    \E e \in DaemonEntities :
        \/ process_get(e)
        \/ process_existing(e)
        \/ process_save_existing(e)
        \/ cache_lookup(e)
        \/ \E which \in {"retry", "artifact_retry"} : ipfs_download_retry(e, which)
        \/ \E which \in {"retry", "artifact_retry"}, gateway \in ipfs_gateways, ok \in BOOLEAN :
              ipfs_download_primary(e, which, gateway, ok)
        \/ \E which \in {"retry", "artifact_retry"}, ok \in BOOLEAN : ipfs_download_fallback(e, which, ok)
        \/ \E which \in {"retry", "artifact_retry"} : backoff(e, which)
        \/ download_ends(e)
        \/ save_not_json(e)
        \/ cache_create(e)
        \/ artifact_ends(e)
        \/ save_invalid(e)
        \/ \E how \in {"commit", "transaction", "tags"} : persist(e, how)
        \/ save_failed(e)

\* One pipeline on its own, with every request of its downloads.
ProcessSpec == ProcessInit /\ [][ProcessNext]_vars

\* ================================================================== claims

\* C1: in any run of the orchestrator and the pipelines, the metadata_status
\* of an entity changes only from New to Valid, Invalid or Failed (after the
\* indexer created it New): once it is Valid, Invalid or Failed, no step of
\* any pipeline changes it again.
C1_StatusOnlyLeavesNew ==
    [][\A e \in DOMAIN metadata_status :
          metadata_status'[e] # metadata_status[e] =>
              \/ metadata_status[e] = "absent" /\ metadata_status'[e] = "New"
              \/ metadata_status[e] = "New" /\ metadata_status'[e] \in {"Valid", "Invalid", "Failed"}]_vars

\* The three terminal values have been written, the Invalid one by a pipeline
\* that saved the entity twice (the body was not JSON), every handle is
\* resolved and the orchestrator has reset the cursors for a further pass.
C1_Witness ==
    /\ \E e \in DOMAIN pipe : metadata_status[e] = "Invalid" /\ content[pipe[e].uri] = "not_json" /\ pipe[e].pc = "done"
    /\ \E e \in DOMAIN pipe : metadata_status[e] = "Valid"
    /\ \E e \in DOMAIN pipe : metadata_status[e] = "Failed"
    /\ \A e \in DOMAIN pipe : future[e] \in {"result", "exception"}
    /\ caller = "sleep"
    /\ \A kind \in DOMAIN pass_keys : pass_keys[kind] = <<>>

\* The pipeline of e was ended by a TransactionManagementError.
TransactionFailed(e) ==
    /\ task_state[e] = "raised"
    /\ pipe[e].pc = "done"
    /\ pipe[e].fault
    /\ pipe[e].link = None

\* C11: a transaction-management failure of the store ends the pipeline with
\* the entity's status left New; it stays New, the handle of the unit is
\* resolved with the failure, and the orchestrator submits the entity again,
\* in a later pass (the cursors were reset since it was returned).
C11_TransactionFailureRetried ==
    /\ \A e \in DaemonEntities :
          /\ [](TransactionFailed(e) => metadata_status[e] = "New" /\ future[e] \in {"pending", "exception"})
          /\ TransactionFailed(e) ~> At(e, "get")
    /\ [][\A e \in DaemonEntities :
            /\ (At(e, "persist") /\ pipe'[e].fault /\ pipe'[e].link = None) =>
                  (metadata_status'[e] = "New" /\ task_state'[e] = "raised")
            /\ (TransactionFailed(e) /\ task_state'[e] = "running") =>
                  (future[e] = "exception" /\ \A i \in 1..Len(pass_keys[e[1]]) : pass_keys[e[1]][i] # KeyOf(e))]_vars

\* The place is submitted again after its pipeline was ended by a
\* transaction-management failure: no other entity with its metadata_uri
\* exists, the cache has the manifest that pipeline stored, and the new
\* pipeline is at its cache lookup with the status still New.
C11_Witness ==
    /\ At(<<"Place", 1>>, "cache_lookup")
    /\ future[<<"Place", 1>>] = "pending"
    /\ metadata_status[<<"Place", 1>>] = "New"
    /\ metadata_status[<<"Item", 1>>] = "absent"
    /\ "ipfs://A" \in cache
    /\ pass_keys["Place"] = <<1>>

\* C12: once the shutdown has called cancel_all(), no pipeline that was
\* submitted and had not completed (awaited by a worker or waiting in the
\* backlog) writes a status: no entity's metadata_status changes any more.
C12_ShutdownChangesNoStatus ==
    [][cancel_called =>
         \A e \in DaemonEntities :
             metadata_status[e] # "absent" => metadata_status'[e] = metadata_status[e]]_vars

\* C2: with no cancellation, every handle of the N units submitted to W < N
\* workers is eventually resolved, exactly once (its done-callback runs once
\* and never twice), with the result of a unit that returned or the failure
\* of a unit that raised.
C2_EveryHandleResolvedOnce ==
    \A u \in PoolUnits :
        /\ [](fired[u] <= 1)
        /\ [](future[u] = "result" => task_state[u] = "ok")
        /\ [](future[u] = "exception" => task_state[u] = "raised")
        /\ (future[u] = "pending") ~> (future[u] \in {"result", "exception"} /\ fired[u] = 1)

C2_Witness ==
    /\ Units = PoolUnits
    /\ Cardinality(Workers) < Cardinality(Units)
    /\ \A u \in Units : future[u] \in {"result", "exception"} /\ fired[u] = 1
    /\ \E u, v \in Units : future[u] = "result" /\ future[v] = "exception"

\* C3: a unit that raises has its failure recorded on its handle by the
\* worker that awaited it, that worker goes back to tasks.get(), every
\* done-callback runs at most once, and a later join() returns with no handle
\* pending and the caller's pending counter back at 0.
C3_FailureRecordedWorkerSurvives ==
    /\ [][\A w \in 1..PoolWorkers :
            (/\ workers[w].pc = "wait"
             /\ task_state[workers[w].cur] = "raised"
             /\ workers'[w] # workers[w])
            => (future'[workers[w].cur] = "exception" /\ workers'[w].pc = "get")]_vars
    /\ [](\A u \in PoolUnits : fired[u] <= 1)
    /\ [](caller = "joined" =>
            /\ join_result = "returned"
            /\ pending_tasks = 0
            /\ \A u \in PoolUnits : future[u] # "pending")
    /\ (caller = "joining") ~> (caller = "joined")

C3_Witness ==
    /\ Units = PoolUnits
    /\ caller = "joined"
    /\ pending_tasks = 0
    /\ \E u, v \in Units : u[2] < v[2] /\ future[u] = "exception" /\ future[v] = "result"
    /\ \A w \in Workers : workers[w].pc = "terminated"

\* C4: once cancel_all() and then join() have returned, no handle that
\* submit() returned is still pending.
C4_NoHandlePendingAfterCancelJoin ==
    (cancel_called /\ caller = "joined") => \A u \in Units : future[u] # "pending"

\* C5: join() always returns, with every worker loop ended, and returns
\* normally also when loops ended cancelled or with a failure.
C5_JoinTerminates ==
    /\ (caller = "joining") ~> (caller = "joined")
    /\ [](caller = "joined" => join_result = "returned" /\ \A w \in 1..PoolWorkers : WorkerDone(w))

C5_Witness ==
    /\ Units = CancelPoolUnits
    /\ caller = "joined"
    /\ cancel_called
    /\ \E w \in Workers : workers[w].pc = "crashed"
    /\ \E w \in Workers : workers[w].pc = "cancelled" /\ workers[w].cur # None /\ task_state[workers[w].cur] = "cancelled"

\* C6: next() returns the New entity with the lowest key above the last key
\* returned since the last reset() (the lowest New entity of the kind when
\* nothing was returned since), and None exactly when there is no such entity.
C6_NextReturnsLowestNewAboveLast ==
    [][returned' # NoCall =>
        LET kind == returned'.kind
            eligible == {e \in DOMAIN metadata_status :
                            /\ e[1] = kind
                            /\ metadata_status[e] = "New"
                            /\ \A i \in 1..Len(pass_keys[kind]) : e[2] > pass_keys[kind][i]}
        IN  /\ returned'.value = None <=> eligible = {}
            /\ returned'.value # None =>
                  /\ returned'.value \in eligible
                  /\ \A e \in eligible : returned'.value[2] <= e[2]]_vars

\* next() has just returned key 1: it is above key 0, returned earlier in the
\* pass and no longer New, and below key 2, which is New as well.
C6_Witness ==
    /\ returned # NoCall
    /\ returned.value = <<"Item", 1>>
    /\ pass_keys["Item"] = <<0, 1>>
    /\ metadata_status[<<"Item", 2>>] = "New"
    /\ metadata_status[<<"Item", 0>>] # "New"

\* C7: the keys next() returns between two reset() calls are strictly
\* increasing, whatever is created or finished in between.
C7_PassStrictlyIncreasing ==
    \A kind \in DOMAIN pass_keys :
        \A i, j \in 1..Len(pass_keys[kind]) : i < j => pass_keys[kind][i] < pass_keys[kind][j]

\* The cursor has returned key 1, a New entity with key 0 was created after
\* that, and a later next() returned key 2 and not key 0.
C7_Witness ==
    /\ pass_keys["Item"] = <<1, 2>>
    /\ metadata_status[<<"Item", 0>>] = "New"
    /\ returned # NoCall

\* C8: when the orchestrator submits a pipeline for an entity, the cursor has
\* not returned that entity earlier in the pass, and no pipeline submitted
\* for it before is outstanding: its handle is resolved, its task has ended
\* and it is not in the backlog.
C8_NoSubmissionWhileOutstanding ==
    [][\A e \in DaemonEntities :
          tasks' = Append(tasks, e) =>
              /\ \A i \in 1..Len(pass_keys[e[1]]) : pass_keys[e[1]][i] # KeyOf(e)
              /\ future[e] # "pending"
              /\ task_state[e] \notin {"running", "cancelling"}
              /\ \A i \in 1..Len(tasks) : tasks[i] # e]_vars

\* The contract is submitted for the second time: only its pipeline uses its
\* metadata_uri, the cache has the entry an earlier pipeline created, and the
\* pipeline submitted in this pass is at its cache lookup.
C8_Witness ==
    /\ pass_keys = [kind \in Kinds |-> IF kind = "Contract" THEN <<1>> ELSE <<>>]
    /\ "ipfs://B" \in cache
    /\ future[<<"Contract", 1>>] = "pending"
    /\ At(<<"Contract", 1>>, "cache_lookup")
    /\ metadata_status[<<"Contract", 1>>] = "New"

\* C9: each metadata_uri is downloaded from the network at most once.
C9_EachUriDownloadedAtMostOnce ==
    \A uri \in DOMAIN downloads : downloads[uri] <= 1

\* C9 as amended: a manifest download is started only by a pipeline whose own
\* cache lookup found no entry for the metadata_uri; a pipeline whose lookup
\* finds the entry takes the cached manifest and downloads nothing.
C9_DownloadOnlyAfterCacheMiss ==
    [][\A e \in DOMAIN pipe :
        /\ (pipe[e].pc = "cache_lookup" /\ pipe'[e].pc # "cache_lookup" /\ pipe[e].uri \in cache)
              => /\ pipe'[e].pc # "download"
                 /\ pipe'[e].manifest = content[pipe[e].uri]
                 /\ downloads' = downloads
        /\ (pipe[e].pc # "download" /\ pipe'[e].pc = "download")
              => (pipe[e].pc = "cache_lookup" /\ pipe[e].uri \notin cache)
        /\ \A uri \in DOMAIN downloads :
              downloads'[uri] # downloads[uri] => \E x \in DOMAIN pipe : pipe[x].pc = "download" /\ pipe[x].uri = uri]_vars

\* Two pipelines have the manifest of the same metadata_uri and it was
\* downloaded once: the second one was served from the cache.
C9_Witness ==
    \E e1, e2 \in DOMAIN pipe :
        /\ e1 # e2
        /\ pipe[e1].uri = pipe[e2].uri
        /\ pipe[e1].manifest # "None" /\ pipe[e2].manifest # "None"
        /\ pipe[e1].uri \in cache
        /\ downloads[pipe[e1].uri] = 1

\* C10: two pipelines for different entities with the same metadata_uri, both
\* finished without a download or store fault, leave one cache entry and each
\* entity with the status its manifest content determines.
C10_RacingPipelinesConverge ==
    \A e1, e2 \in DOMAIN pipe :
        (/\ e1 # e2
         /\ pipe[e1].uri = pipe[e2].uri
         /\ pipe[e1].pc = "done" /\ pipe[e2].pc = "done"
         /\ ~pipe[e1].fault /\ ~pipe[e2].fault)
        => /\ metadata_status[e1] = Determined(e1[1], content[pipe[e1].uri])
           /\ metadata_status[e2] = Determined(e2[1], content[pipe[e2].uri])


\* ------------------------------------------------ claims on one pipeline

\* The two downloads of a pipeline: of the manifest and of the artifact.
Downloaders == {"retry", "artifact_retry"}

\* The requests ipfs_download_fallback has sent in attempt a of a download.
GroupOf(r, a) == {i \in 1..Len(r.requests) : r.requests[i].attempt = a}

\* The attempts in which a download has sent a request.
GroupsOf(r) == {r.requests[i].attempt : i \in 1..Len(r.requests)}

\* C13: when a download, of the manifest of any kind or of the artifact of
\* an item, has exhausted its retries, the pipeline ends with the entity
\* Failed, no derived record created or attached; with download_retries = 1
\* the download was one attempt group and no backoff sleep.
C13_ExhaustedDownloadFails ==
    \A e \in DaemonEntities : \A which \in Downloaders :
        (pipe[e].pc = "done" /\ pipe[e][which].pc = "raised") =>
            /\ metadata_status[e] = "Failed"
            /\ metadata[e] = None
            /\ e \notin records
            /\ pipe[e].config.download_retries = 1 =>
                  /\ GroupsOf(pipe[e][which]) = {1}
                  /\ pipe[e][which].slept = <<>>

C13_Witness ==
    /\ pipe[<<"Item", 1>>].pc = "done"
    /\ pipe[<<"Item", 1>>].artifact_retry.pc = "raised"
    /\ pipe[<<"Item", 1>>].retry.pc = "returned"
    /\ pipe[<<"Item", 1>>].config.download_retries = 1
    /\ metadata_status[<<"Item", 1>>] = "Failed"

\* a * b^n = c * d^n, for delays that are fractions.
SameDelay(units, i) ==
    units * backoff_factor_den ^ (i - 1) = sleep_time * TimeUnit * backoff_factor_num ^ (i - 1)

\* C14: a download with download_retries = R whose requests all fail makes
\* exactly R attempt groups, sleeps only between two groups, 10 s, 15 s,
\* 22.5 s, ... (10 * 1.5^(i-1) s after group i), and fails with an error
\* that names R attempts; it stops at the first group that succeeds, with
\* no further attempt or sleep.
C14_RetrySchedule ==
    /\ [](\A e \in DaemonEntities : \A which \in Downloaders :
          LET r == pipe[e][which]
              R == pipe[e].config.download_retries
          IN  /\ r.pc # "idle" =>
                    /\ GroupsOf(r) \in {1..r.attempt, 1..(r.attempt - 1)}
                    /\ Len(r.slept) = r.attempt - 1
                    /\ \A i \in 1..Len(r.slept) : SameDelay(r.slept[i], i)
                    /\ r.attempt <= R
              /\ r.pc = "raised" =>
                    /\ GroupsOf(r) = 1..R
                    /\ r.attempt = R
                    /\ \A i \in 1..Len(r.requests) : ~r.requests[i].ok
              /\ r.pc = "returned" =>
                    /\ r.requests[Len(r.requests)].ok
                    /\ r.requests[Len(r.requests)].attempt = r.attempt
                    /\ \A i \in 1..(Len(r.requests) - 1) : ~r.requests[i].ok)
    /\ [][\A e \in DaemonEntities : \A which \in Downloaders :
            pipe[e][which].pc \in {"returned", "raised"} => pipe'[e][which] = pipe[e][which]]_vars

C14_Witness ==
    /\ pipe[<<"Place", 1>>].retry.pc = "raised"
    /\ pipe[<<"Place", 1>>].config.download_retries = MaxRetries
    /\ Len(pipe[<<"Place", 1>>].retry.slept) = MaxRetries - 1
    /\ metadata_status[<<"Place", 1>>] = "Failed"

\* C15: in one attempt group the fallback gateway is requested exactly
\* once if the first request failed and not at all if it succeeded, whose
\* result is then the result of the download; the group fails only when
\* both requests failed, and it sends at most two requests.
C15_FallbackOncePerGroup ==
    \A e \in DaemonEntities : \A which \in Downloaders :
        LET r == pipe[e][which]
            n == Len(r.requests)
        IN  /\ \A a \in GroupsOf(r) : Cardinality(GroupOf(r, a)) <= 2
            /\ \A i \in 1..n :
                  /\ r.requests[i].role = "fallback" =>
                        /\ i > 1
                        /\ r.requests[i - 1].role = "primary"
                        /\ ~r.requests[i - 1].ok
                        /\ r.requests[i - 1].attempt = r.requests[i].attempt
                        /\ r.requests[i].gateway = ipfs_fallback_gateway
                  /\ (r.requests[i].role = "primary" /\ ~r.requests[i].ok) =>
                        IF i = n THEN r.pc = "fallback"
                        ELSE r.requests[i + 1].role = "fallback"
                  /\ (r.requests[i].role = "primary" /\ r.requests[i].ok) =>
                        (i = n /\ r.pc = "returned")
            /\ r.pc \in {"sleep", "raised"} =>
                  /\ n >= 2
                  /\ ~r.requests[n].ok /\ ~r.requests[n - 1].ok
                  /\ r.requests[n].attempt = r.attempt /\ r.requests[n - 1].attempt = r.attempt

C15_Witness ==
    LET r == pipe[<<"Contract", 1>>].retry
    IN  /\ r.pc = "returned"
        /\ Len(r.requests) = 3
        /\ r.requests[1].gateway = ipfs_fallback_gateway
        /\ r.requests[3].role = "primary"
        /\ metadata_status[<<"Contract", 1>>] = "Valid"

\* C16: when the manifest lacks a required field of the kind (polygonCount
\* of an item), the pipeline ends with the entity Invalid, no derived record
\* created or attached, and for an item without a request for the artifact.
C16_MissingFieldInvalid ==
    \A e \in DaemonEntities :
        (pipe[e].manifest # "None" /\ ~(RequiredOf(e[1]) \subseteq FieldsOf(e[1], pipe[e].manifest))) =>
            /\ pipe[e].pc \in {"cache_create", "save_invalid", "done"}
            /\ pipe[e].pc = "done" => metadata_status[e] = "Invalid"
            /\ metadata[e] = None
            /\ e \notin records
            /\ pipe[e].artifact_retry = NoRetry

C16_Witness ==
    /\ pipe[<<"Item", 1>>].pc = "done"
    /\ pipe[<<"Item", 1>>].manifest = "invalid_fields"
    /\ "polygonCount" \notin FieldsOf("Item", pipe[<<"Item", 1>>].manifest)
    /\ pipe[<<"Item", 1>>].retry.pc = "returned"
    /\ metadata_status[<<"Item", 1>>] = "Invalid"

\* C17: when the body downloaded for the manifest is not JSON, the pipeline
\* saves the entity Invalid and ends there: no cache entry for the URI, no
\* derived record attached, and no validation of required fields on the
\* result.
C17_NotJsonEndsPipeline ==
    [][\A e \in DaemonEntities :
          (At(e, "save_not_json") /\ pipe'[e].pc # "save_not_json") =>
              /\ metadata_status'[e] = "Invalid"
              /\ pipe[e].uri \notin cache'
              /\ metadata'[e] = None
              /\ pipe'[e].pc = "done"]_vars

\* C18: with the artifact downloaded and of the declared size, an item
\* whose manifest declares P polygons and whose artifact has C is accepted
\* exactly when max(0, C - P) <= P * E / 10000 for the tolerance E in basis
\* points: no undercount is rejected, and an excess above the tolerance
\* makes the item Invalid.
C18_PolygonTolerance ==
    /\ [][\A e \in DaemonEntities :
            (At(e, "artifact") /\ pipe'[e].pc # "artifact"
                /\ pipe[e].artifact_retry.pc = "returned" /\ pipe[e].manifest = "valid") =>
                LET P == pipe[e].polygon_count
                    C == pipe[e].counted_polygons
                    E == pipe[e].config.polygon_count_error
                    excess == IF C > P THEN C - P ELSE 0
                IN  /\ pipe'[e].pc = "persist" <=> excess * 10000 <= P * E
                    /\ pipe'[e].pc \in {"persist", "save_invalid"}
                    /\ C <= P => pipe'[e].pc = "persist"]_vars
    /\ [][\A e \in DaemonEntities :
            (At(e, "save_invalid") /\ pipe[e].artifact_retry.pc = "returned") =>
                (pipe'[e].pc = "done" /\ metadata_status'[e] = "Invalid")]_vars

C18_Witness ==
    LET p == pipe[<<"Item", 1>>]
    IN  /\ p.pc = "persist"
        /\ p.counted_polygons > p.polygon_count
        /\ (p.counted_polygons - p.polygon_count) * 10000 = p.polygon_count * p.config.polygon_count_error

\* C19: processing an entity that has a derived record attached is a
\* no-op: no request is sent, nothing is written to the store, and status,
\* attached record and cache are what they were.
C19_AttachedIsNoOp ==
    [][\A e \in DaemonEntities :
          (At(e, "get") /\ metadata[e] # None /\ pipe'[e] # pipe[e]) =>
              /\ pipe'[e].pc = "done"
              /\ task_state'[e] = "ok"
              /\ pipe'[e].retry = NoRetry /\ pipe'[e].artifact_retry = NoRetry
              /\ downloads' = downloads
              /\ storeVars' = storeVars]_vars

C19_Witness ==
    /\ pipe[<<"Place", 1>>].pc = "done"
    /\ metadata[<<"Place", 1>>] = <<"Place", 1>>
    /\ metadata_status[<<"Place", 1>>] = "New"
    /\ task_state[<<"Place", 1>>] = "ok"

\* The pipeline of e has made no request and no cache lookup.
Untouched(p) == p.retry = NoRetry /\ p.artifact_retry = NoRetry /\ p.manifest = "None"

\* C20: when the entity has no record attached and a derived record exists
\* for its identity, the pipeline attaches that record, saves the entity
\* Valid and returns, without a request, a cache access or a new record.
C20_ExistingRecordAttached ==
    [][\A e \in DaemonEntities :
          /\ (At(e, "existing") /\ e \in records /\ pipe'[e] # pipe[e]) =>
                (pipe'[e].pc = "save_existing" /\ pipe'[e].link = e /\ storeVars' = storeVars)
          /\ (At(e, "save_existing") /\ pipe'[e] # pipe[e]) =>
                /\ metadata'[e] = e
                /\ metadata_status'[e] = "Valid"
                /\ pipe'[e].pc = "done" /\ task_state'[e] = "ok"
                /\ Untouched(pipe'[e])
                /\ records' = records /\ cache' = cache /\ downloads' = downloads]_vars

C20_Witness ==
    /\ pipe[<<"Contract", 1>>].pc = "done"
    /\ Untouched(pipe[<<"Contract", 1>>])
    /\ pipe[<<"Contract", 1>>].link = <<"Contract", 1>>
    /\ metadata_status[<<"Contract", 1>>] = "Valid"
    /\ "ipfs://B" \notin cache


Backlog == {i \in 1..Len(tasks) : tasks[i] # TERMINATOR}

\* The submitted units whose handle has not resolved.
Outstanding == {e \in DaemonEntities : future[e] = "pending"}

\* C22: at every moment the number of submitted units whose handle has not
\* resolved, and with it the length of the backlog queue of the pool, is at
\* most 2 * processing_workers.
C22_OutstandingAtMost2W ==
    /\ Cardinality(Outstanding) <= 2 * processing_workers
    /\ Cardinality(Backlog) <= 2 * processing_workers


\* ------------------------------------------------ utils.py: the grid cell

\* config.py:17: grid_size
grid_size == 100

\* The grid sizes of the calls: the configured one and half of it.
GridSizes == {grid_size, grid_size \div 2}

\* The coordinates of the calls, in steps of a quarter of grid_size.
Coordinates == {k * (grid_size \div 4) : k \in (-4 * MaxCell)..(4 * MaxCell)}

\* math.trunc(coordinate / gridSize): rounds towards zero (gridSize > 0).
trunc(coordinate, gridSize) ==
    IF coordinate >= 0 THEN coordinate \div gridSize ELSE -((-coordinate) \div gridSize)

\* The quotient is rounded down instead of towards zero.
toGridFloored(coordinate, gridSize) ==
    (coordinate \div gridSize) + (IF coordinate < 0 THEN -1 ELSE 1)

\* utils.py:4-8
toGrid(coordinate, gridSize) ==
    LET sign == IF coordinate < 0 THEN -1 ELSE 1
    IN  trunc(coordinate, gridSize) + sign

\* utils.py:10-13: the three cell numbers the hash is taken of.
getGridCellHash ==
    /\ caller = "getGridCellHash"
    /\ returned' = [kind  |-> "getGridCellHash",
                    value |-> <<toGrid(locals.x, locals.gridSize),
                                toGrid(locals.y, locals.gridSize),
                                toGrid(locals.z, locals.gridSize)>>]
    /\ caller' = "returned"
    /\ UNCHANGED <<poolVars, pending_tasks, cancel_called, join_result, locals, storeVars, pipeVars, current, pass_keys>>

\* process_place_token, line 261: getGridCellHash is called with the centre
\* coordinates of the place and config.grid_size.
GridInit ==
    /\ NewPool(0, {}) /\ NoStore /\ NewCursors({})
    /\ pending_tasks = 0 /\ cancel_called = FALSE /\ join_result = "none"
    /\ caller = "getGridCellHash"
    /\ locals \in [x : Coordinates, y : Coordinates, z : Coordinates, gridSize : GridSizes]

GridSpec == GridInit /\ [][getGridCellHash]_vars

\* -------------------------------------- gltf_validation.py: polygon count

\* None where the value is otherwise an index into a list of the document
\* (indices are counted from 1).
Absent == 0

\* pygltflib: the primitive modes LINES, TRIANGLES, TRIANGLE_STRIP, TRIANGLE_FAN.
LINES == 1

TRIANGLES == 4

TRIANGLE_STRIP == 5

TRIANGLE_FAN == 6

Modes == {LINES, TRIANGLES, TRIANGLE_STRIP, TRIANGLE_FAN}

\* doc.accessors: two index accessors, of MaxIndices - 1 and MaxIndices indices.
Accessors == <<[count |-> MaxIndices - 1], [count |-> MaxIndices]>>

\* A primitive: its mode and its index accessor, if it has one.
Primitives == [mode : Modes, indices : {Absent} \cup DOMAIN Accessors]

\* The documents of the calls: two scenes over two nodes, node 1 with or
\* without node 2 as its child, one mesh of two primitives that each node
\* has or has not, and with or without a default scene.
Documents ==
    {[scene     |-> sc,
      scenes    |-> <<[nodes |-> r1], [nodes |-> r2]>>,
      nodes     |-> <<[mesh |-> m1, children |-> ch], [mesh |-> m2, children |-> <<>>]>>,
      meshes    |-> <<[primitives |-> <<p, q>>]>>,
      accessors |-> Accessors] :
        sc \in {Absent, 1, 2}, r1 \in {<<1>>, <<2>>, <<1, 2>>}, r2 \in {<<1>>, <<2>>, <<1, 2>>},
        m1 \in {Absent, 1}, m2 \in {Absent, 1}, ch \in {<<>>, <<2>>},
        p \in Primitives, q \in Primitives}

\* gltf_validation.py:39-50: the case of the match statement a mode is
\* handled by. The patterns are
\* `int(TRIANGLES)`, `int(TRIANGLE_STRIP)`, `int(TRIANGLE_FAN)` and `_`: class
\* patterns whose argument is a bare name, that is a capture pattern, so
\* the first case matches every int and binds the name to it.
MatchCase(mode) == IF mode \in Int THEN "TRIANGLES" ELSE "_"

\* gltf_validation.py:35-50: what one primitive adds to polyCount.
PrimitivePolygons(doc, prim) ==
    IF prim.indices = Absent THEN 0
    ELSE IF MatchCase(prim.mode) = "TRIANGLES" THEN doc.accessors[prim.indices].count \div 3
    ELSE 0

RECURSIVE SumOver(_, _, _)
\* The sum of f[i] over the elements of a list, as the for loops add it up.
SumOver(list, f, i) == IF i > Len(list) THEN 0 ELSE f[list[i]] + SumOver(list, f, i + 1)

RECURSIVE traverseNodesCountPolygons(_, _)
\* gltf_validation.py:30-56
traverseNodesCountPolygons(n, doc) ==
    LET node == doc.nodes[n]
        prims == IF node.mesh = Absent THEN <<>> ELSE doc.meshes[node.mesh].primitives
        own == SumOver([i \in 1..Len(prims) |-> i], [i \in 1..Len(prims) |-> PrimitivePolygons(doc, prims[i])], 1)
    IN  own + SumOver(node.children, [c \in 1..Len(doc.nodes) |-> traverseNodesCountPolygons(c, doc)], 1)

\* gltf_validation.py:22-64, from the loaded document on.
count_gltf_polygons_of(doc) ==
    LET scene == IF doc.scene # Absent THEN doc.scenes[doc.scene] ELSE doc.scenes[1]
    IN  SumOver(scene.nodes, [n \in 1..Len(doc.nodes) |-> traverseNodesCountPolygons(n, doc)], 1)

count_gltf_polygons ==
    /\ caller = "count_gltf_polygons"
    /\ returned' = [kind |-> "count_gltf_polygons", value |-> count_gltf_polygons_of(locals.file)]
    /\ caller' = "returned"
    /\ UNCHANGED <<poolVars, pending_tasks, cancel_called, join_result, locals, storeVars, pipeVars, current, pass_keys>>

\* process_item_token, line 383: count_gltf_polygons of the artifact.
GltfInit ==
    /\ NewPool(0, {}) /\ NoStore /\ NewCursors({})
    /\ pending_tasks = 0 /\ cancel_called = FALSE /\ join_result = "none"
    /\ caller = "count_gltf_polygons"
    /\ locals \in [file : Documents]

GltfSpec == GltfInit /\ [][count_gltf_polygons]_vars

\* C23: the grid cell of a coordinate c for grid size g is trunc(c / g) +
\* sign(c) on each axis, sign(c) being -1 for c < 0 and +1 otherwise; the
\* coordinates (150, 0, -150) with g = 100 are in cell (2, 1, -2); and two
\* coordinates that differ by at least g get different cell numbers.
C23_GridCell ==
    returned.kind = "getGridCellHash" =>
        LET c == <<locals.x, locals.y, locals.z>>
            g == locals.gridSize
            cell == returned.value
        IN  /\ \A i \in 1..3 :
                  LET s == IF c[i] < 0 THEN -1 ELSE 1
                      q == cell[i] - s
                  IN  /\ q * s >= 0
                      /\ q * s * g <= c[i] * s
                      /\ c[i] * s < (q * s + 1) * g
            /\ (c = <<150, 0, -150>> /\ g = 100) => cell = <<2, 1, -2>>
            /\ \A i, j \in 1..3 : c[i] - c[j] >= g => cell[i] # cell[j]

C23_Witness ==
    /\ returned.kind = "getGridCellHash"
    /\ locals = [x |-> 150, y |-> 0, z |-> -150, gridSize |-> 100]
    /\ returned.value = <<2, 1, -2>>


\* C28: count_gltf_polygons returns the sum, over every node reachable from
\* the roots of the active scene (the default scene, else the first) along
\* the child links, once per path, and over every primitive of the node's
\* mesh with an index accessor of n indices, of n / 3 truncated for
\* TRIANGLES, n - 2 for TRIANGLE_STRIP, n - 1 for TRIANGLE_FAN and 0 for any
\* other mode.
C28_PolygonsByDrawMode ==
    returned.kind = "count_gltf_polygons" =>
        LET doc == locals.file
            scene == IF doc.scene # Absent THEN doc.scenes[doc.scene] ELSE doc.scenes[1]
            polygons(prim) ==
                IF prim.indices = Absent THEN 0
                ELSE LET n == doc.accessors[prim.indices].count
                     IN  IF prim.mode = TRIANGLES THEN n \div 3
                         ELSE IF prim.mode = TRIANGLE_STRIP THEN n - 2
                         ELSE IF prim.mode = TRIANGLE_FAN THEN n - 1
                         ELSE 0
            own == [n \in 1..Len(doc.nodes) |->
                      IF doc.nodes[n].mesh = Absent THEN 0
                      ELSE LET prims == doc.meshes[doc.nodes[n].mesh].primitives
                           IN  SumOver([i \in 1..Len(prims) |-> i], [i \in 1..Len(prims) |-> polygons(prims[i])], 1)]
            RECURSIVE reached(_)
            reached(n) == own[n] + SumOver(doc.nodes[n].children, [c \in 1..Len(doc.nodes) |-> reached(c)], 1)
        IN  returned.value = SumOver(scene.nodes, [n \in 1..Len(doc.nodes) |-> reached(n)], 1)


\* C24: the cursors are reset only on a fully drained pass: in an iteration
\* in which the item, the place and the contract cursor all returned none
\* and no submitted pipeline is outstanding; and the three cursors are reset
\* together.
C24_ResetOnlyWhenDrained ==
    [][(\E kind \in Kinds : current[kind] # None /\ current'[kind] = None) =>
          /\ caller = "Contract"
          /\ locals.next_item = None /\ locals.next_place = None
          /\ returned.kind = "Contract" /\ returned.value = None
          /\ pending_tasks = 0
          /\ \A e \in DaemonEntities : ~Running(e) /\ future[e] # "pending"
          /\ Backlog = {}
          /\ \A kind \in Kinds : current'[kind] = None]_vars

C24_Witness ==
    /\ \A kind \in Kinds : current[kind] = None
    /\ caller = "sleep"
    /\ metadata_status[<<"Item", 1>>] = "Valid"
    /\ metadata_status[<<"Place", 1>>] = "Failed"
    /\ pass_keys = [kind \in Kinds |-> <<>>]

\* The submitted pipelines that have started to execute and not ended.
Executing == {e \in DaemonEntities : Running(e) /\ pipe[e].pc # "get"}

\* C26: a submitted unit starts executing only when a worker loop has
\* pulled it from the backlog queue, so that at every moment at most
\* processing_workers submitted pipelines are executing.
C26_AtMostWExecuting ==
    /\ Cardinality(Executing) <= processing_workers
    /\ \A e \in Executing : \A i \in 1..Len(tasks) : tasks[i] # e

\* C30: when cancel_all() has not been called, join() returns only after
\* every unit submitted before it has been executed and its handle
\* resolved: the sentinels are queued behind the units, and no worker loop
\* terminates while a unit is still in the backlog.
C30_JoinAfterAllUnits ==
    /\ [](caller = "joined" =>
            /\ tasks = <<>>
            /\ \A u \in PoolUnits : future[u] # "none" => (FutureDone(u) /\ TaskFinished(u)))
    /\ [][\A w \in 1..PoolWorkers :
            (workers[w].pc # "terminated" /\ workers'[w].pc = "terminated") =>
                \A i \in 1..Len(tasks') : tasks'[i] = TERMINATOR]_vars

C30_Witness ==
    /\ caller = "joined"
    /\ \A u \in PoolUnits : FutureDone(u)
    /\ \E u \in PoolUnits : future[u] = "exception"
    /\ \A w \in 1..PoolWorkers : workers[w].pc = "terminated"


\* C25: no kind is starved: while the orchestrator is not shut down and
\* the pipelines terminate, every entity of every kind that is New and not
\* being processed is eventually submitted, whatever is pending for the
\* other kinds; and each fill iteration asks the item, the place and the
\* contract cursor once each, in that order.
C25_NoKindStarved ==
    /\ \A e \in DaemonEntities : (metadata_status[e] = "New" /\ ~Running(e)) ~> Running(e)
    /\ [][/\ (caller = "Item" /\ caller' # caller) => (caller' = "Place" /\ returned.kind = "Item")
          /\ (caller = "Place" /\ caller' # caller) => (caller' = "Contract" /\ returned.kind = "Place")
          /\ (caller = "Contract" /\ caller' # caller) => (caller' \in {"Item", "sleep"} /\ returned.kind = "Contract")
          /\ (caller = "sleep" /\ caller' # caller) => caller' = "Item"
          /\ (returned = NoCall /\ returned' # NoCall) => returned'.kind = caller
          /\ \A e \in DaemonEntities : (~Running(e) /\ task_state'[e] = "running") => returned.value = e]_vars

C25_Witness ==
    /\ \A e \in DaemonEntities : Running(e)
    /\ pending_tasks = 3
    /\ pass_keys = [kind \in Kinds |-> <<1>>]
    /\ caller = "sleep"

\* ------------------------------------------- the end of the orchestrator

\* daemon.py:94: `await processing.shutdown()` closes the HTTP client session
\* (worker.py:481-482) once join() has returned.
processing_shutdown ==
    /\ caller = "joined"
    /\ caller' = "http_closed"
    /\ UNCHANGED <<poolVars, pending_tasks, cancel_called, join_result, locals, nonPoolVars>>

\* daemon.py:95: `await Tortoise.close_connections()`; token_processing_task
\* returns.
close_connections ==
    /\ caller = "http_closed"
    /\ caller' = "closed"
    /\ UNCHANGED <<poolVars, pending_tasks, cancel_called, join_result, locals, nonPoolVars>>

\* daemon.py:110-111 and 90-95: the handlers stay installed, and SIGINT or
\* SIGTERM calls main_task.cancel() again while the orchestrator is suspended
\* in one of the awaits of `finally`, which nothing shields: CancelledError
\* leaves the block and ends the task. Cancelling join() cancels the gather
\* it awaits, and with it every worker loop that has not ended.
signal_in_finally ==
    /\ caller \in {"joining", "joined", "http_closed"}
    /\ caller' = "cancelled"
    /\ IF caller = "joining" THEN cancel_all ELSE UNCHANGED <<workers, task_state>>
    /\ UNCHANGED <<tasks, future, callbacks, fired, pending_tasks, cancel_called, join_result, locals, nonPoolVars>>

ShutdownNext ==
    \/ DaemonNext
    \/ processing_shutdown
    \/ close_connections
    \/ signal_in_finally

\* token_processing_task from its first query to the end of the task, with
\* the signals the handlers of main() turn into cancellations.
ShutdownSpec == DaemonRunInit /\ [][ShutdownNext]_vars

\* C27: once the termination signal has arrived in the main loop and
\* cancel_all() has been called, the orchestrator goes on through join(), the
\* close of the HTTP client and the close of the store connections: its task
\* never ends before all four have been performed.
C27_ShutdownSequenceCompletes ==
    cancel_called => caller \in {"joining", "joined", "http_closed", "closed"}

\* C29: tags are optional for an item: a manifest with every required field
\* but no `tags` key passes the `required fields` block, so its pipeline
\* never saves the item Invalid for its fields, and with the artifact
\* downloaded and the store accepting the writes the item ends Valid.
C29_TagsOptionalForItem ==
    \A e \in DaemonEntities :
        (e[1] = "Item" /\ pipe[e].manifest = "no_tags") =>
            /\ pipe[e].pc # "save_invalid"
            /\ metadata_status[e] # "Invalid"
            /\ (pipe[e].pc = "done" /\ ~pipe[e].fault /\ pipe[e].artifact_retry.pc = "returned") =>
                  metadata_status[e] = "Valid"

\* ------------------------------------------------- the pending counter

\* The submitted units whose handle has not resolved.
Unresolved == {e \in DaemonEntities : future[e] = "pending"}

\* C31 as stated: pending_tasks always equals the number of submitted units
\* whose handle has not yet resolved.
C31_PendingEqualsUnresolved == pending_tasks = Cardinality(Unresolved)

\* C31: pending_tasks is never negative and always equals the number of
\* submitted units whose done-callback has not yet run: the units whose
\* handle has not resolved plus the resolved handles whose callback the
\* event loop has scheduled and not yet called; the callback of a handle
\* runs once, after the handle has resolved.
C31_PendingCountsUntilCallback ==
    /\ pending_tasks = Cardinality(Unresolved) + Cardinality(callbacks)
    /\ pending_tasks >= 0
    /\ \A e \in callbacks : FutureDone(e)
    /\ \A e \in DaemonEntities : fired[e] = IF FutureDone(e) /\ e \notin callbacks THEN 1 ELSE 0

C31_Witness ==
    \E e \in DaemonEntities :
        /\ future[e] = "result"
        /\ e \in callbacks
        /\ fired[e] = 0
        /\ Unresolved = {}
        /\ pending_tasks = 1
        /\ caller = "Contract"
        /\ returned # NoCall

\* C32: a run of process_metadata that returns without raising leaves the
\* entity Valid, Invalid or Failed, except for the early out of an entity
\* that had a derived metadata record attached when the run read it, whose
\* status the run leaves as it was.
C32_NormalReturnSettlesStatus ==
    [][\A e \in DaemonEntities :
          (task_state[e] = "running" /\ task_state'[e] = "ok") =>
              \/ metadata_status'[e] \in {"Valid", "Invalid", "Failed"}
              \/ /\ pipe[e].pc = "get"
                 /\ metadata[e] # None
                 /\ metadata_status'[e] = metadata_status[e]]_vars

C32_Witness ==
    \E e \in DaemonEntities :
        /\ task_state[e] = "ok"
        /\ pipe[e].pc = "done"
        /\ pipe[e].fault
        /\ pipe[e].retry.pc = "raised"
        /\ metadata[e] = None
        /\ metadata_status[e] = "Failed"

\* C33: a next() that returns none leaves the remembered entity of the
\* cursor as it was; with an entity remembered, next() returns a New entity
\* with a higher key whenever there is one, with no reset() in between, and
\* never an entity at or below the remembered key.
C33_ExhaustedCursorStays ==
    [][(returned' # NoCall /\ <<current, returned>>' # <<current, returned>>) =>
          LET cur == current["Item"]
              next == returned'.value
          IN  /\ next = None => current' = current
              /\ cur # None =>
                    /\ next # None => (KeyOf(next) > KeyOf(cur) /\ metadata_status[next] = "New")
                    /\ (\E e \in ItemEntities : metadata_status[e] = "New" /\ KeyOf(e) > KeyOf(cur)) => next # None]_vars

C33_Witness ==
    /\ returned = [kind |-> "Item", value |-> None]
    /\ current["Item"] = <<"Item", 1>>
    /\ pass_keys["Item"] = <<1>>
    /\ metadata_status[<<"Item", 0>>] = "New"
    /\ metadata_status[<<"Item", 1>>] = "New"
    /\ metadata_status[<<"Item", 2>>] = "Valid"
====
